---- MODULE Spec2Model ----
(***************************************************************************)
(* A model of the thread pool of threadpool.h / threadpool.cpp: the pool   *)
(* object (counters, queue, worker map, mutex and condition variables),    *)
(* the owner thread that configures, starts and destroys it, the client    *)
(* threads that call submitTask, the worker threads that run threadFunc,   *)
(* and the threads that call Result::get.                                  *)
(*                                                                         *)
(* Time is abstracted: a timed wait may time out at any moment, and the    *)
(* comparison of a worker's idle time with THREAD_MAX_IDLE_TIME may come   *)
(* out either way.  Calls of start, the setters and the destructor are     *)
(* made by one owner thread and never overlap a submitTask call.  Each     *)
(* client thread owns one Task object, which it may submit again, and      *)
(* calls get() at most once on the Result of its latest submitTask call.   *)
(***************************************************************************)
EXTENDS Integers, Sequences, FiniteSets, TLC

\* ---- bounds of the model ----
MaxSubmits == 2      \* submitTask calls made over a run
NumClients == 2      \* client threads, each with a Task object of its own
MaxThreads == 2      \* Thread objects (and OS threads) created over a run
MaxInit == 2         \* largest argument passed to start
MaxExec == 2         \* Task::exec calls made on one Task object outside the pool

\* ---- program constants ----
TASK_MAX_THRESHOLD == 2147483647
THREAD_MAX_THRESHOLD == 1024
Nullptr == 0

MODE_FIXED == "MODE_FIXED"
MODE_CACHED == "MODE_CACHED"
PoolMode == {MODE_FIXED, MODE_CACHED}

Handles == 1..MaxSubmits
Clients == 1..NumClients
Tasks == Clients
Workers == 1..MaxThreads
Ids == 0..(MaxThreads - 1)

\* arguments the owner passes to the setters and to start
QueThresholdArgs == {0, 1}
ThreadThresholdArgs == {0, 1, THREAD_MAX_THRESHOLD + 1}
InitArgs == 0..MaxInit

\* thread identities, as holders of taskQueMtx_
Free == <<"free", 0>>
Owner == <<"owner", 0>>
Client(c) == <<"client", c>>
Worker(w) == <<"worker", w>>

\* values of an Any
Empty == <<"empty", 0>>
Sentinel == <<"string", 0>>
Value(t) == <<"value", t>>
Torn == <<"torn", 0>>
NotReturned == <<"none", 0>>

\* the Task object client c submits
TaskOf(c) == c

\* no queue entry: the worker's local `task` before a pop
NoEntry == [task |-> 0, call |-> 0]

VARIABLES
    \* ThreadPool
    poolMode_, taskQueMaxThreshold_, threadSizeThreshold_, initThreadSize_,
    curThreadSize_, idleThreadSize_, taskSize_, isPoolRunning_,
    taskQue_, threads_, taskQueMtx_,
    \* Thread
    generateId_,
    \* Task and Result objects
    result_, isValid_, any_, resLimit_,
    \* the owner thread
    opc, startArg, startIdx,
    \* client threads: inside submitTask, holding a Result, inside Result::get
    cpc, ccall, nCalls, got,
    \* worker threads inside threadFunc
    wpc, wid, wtask,
    \* the process
    crashed,
    \* history
    appended, popped, published, ran, execCalls, bodyRuns, callTask, atShutdown

poolVars == <<poolMode_, taskQueMaxThreshold_, threadSizeThreshold_, initThreadSize_,
              curThreadSize_, idleThreadSize_, taskSize_, isPoolRunning_,
              taskQue_, threads_, taskQueMtx_, generateId_>>
resultVars == <<result_, isValid_, any_, resLimit_>>
ownerVars == <<opc, startArg, startIdx>>
clientVars == <<cpc, ccall, nCalls, got>>
workerVars == <<wpc, wid, wtask>>
histVars == <<appended, popped, published, ran, execCalls, bodyRuns, callTask, atShutdown>>
vars == <<poolVars, resultVars, ownerVars, clientVars, workerVars, crashed, histVars>>

\* ThreadPool::ThreadPool() and the objects that exist beside it
Init ==
    /\ poolMode_ = MODE_FIXED
    /\ taskQueMaxThreshold_ = TASK_MAX_THRESHOLD
    /\ threadSizeThreshold_ = THREAD_MAX_THRESHOLD
    /\ initThreadSize_ = 0
    /\ curThreadSize_ = 0
    /\ idleThreadSize_ = 0
    /\ taskSize_ = 0
    /\ isPoolRunning_ = FALSE
    /\ taskQue_ = <<>>
    /\ threads_ = [i \in Ids |-> "none"]
    /\ taskQueMtx_ = Free
    /\ generateId_ = 0
    /\ result_ = [t \in Tasks |-> Nullptr]
    /\ isValid_ = [h \in Handles |-> "unborn"]
    /\ any_ = [h \in Handles |-> Empty]
    /\ resLimit_ = [h \in Handles |-> 0]
    /\ opc = "config"
    /\ startArg = 0
    /\ startIdx = 0
    /\ cpc = [c \in Clients |-> "idle"]
    /\ ccall = [c \in Clients |-> 0]
    /\ nCalls = 0
    /\ wpc = [w \in Workers |-> "unborn"]
    /\ wid = [w \in Workers |-> 0]
    /\ wtask = [w \in Workers |-> NoEntry]
    /\ got = [h \in Handles |-> NotReturned]
    /\ crashed = FALSE
    /\ appended = <<>>
    /\ popped = <<>>
    /\ published = [h \in Handles |-> 0]
    /\ ran = {}
    /\ execCalls = [t \in Tasks |-> 0]
    /\ bodyRuns = [t \in Tasks |-> 0]
    /\ callTask = [h \in Handles |-> 0]
    /\ atShutdown = {}

\* ---------------------------------------------------------------------------
\* helpers
\* ---------------------------------------------------------------------------

\* every action is a step of a process that has not been aborted
Alive == ~crashed

\* notEmpty_.notify_all(): every worker suspended in notEmpty_ leaves its wait
NotifyNotEmpty(pcs) ==
    [w \in Workers |-> IF pcs[w] = "waiting" THEN "notified" ELSE pcs[w]]

\* notFull_.notify_all(): every submitter suspended in notFull_ leaves its wait
NotifyNotFull(pcs) ==
    [c \in Clients |-> IF pcs[c] = "waitFull" THEN "fullNotified" ELSE pcs[c]]

\* exitCond_.notify_all(): the destructor, if suspended in exitCond_, leaves its wait
NotifyExit(pc) == IF pc = "dtor_wait" THEN "dtor_woken" ELSE pc

\* a variant of the running test that never reports a running pool
checkRunningStateNever == FALSE

\* bool ThreadPool::checkRunningState() const
checkRunningState == isPoolRunning_

\* a variant of the admission test that counts the tasks being executed too
QueueHasRoomCountsRunning ==
    Len(taskQue_) + Cardinality({w \in DOMAIN wpc : wpc[w] = "exec"}) < taskQueMaxThreshold_

\* the predicate of notFull_.wait_for in submitTask
QueueHasRoom == Len(taskQue_) < taskQueMaxThreshold_

\* a variant of the growth condition that does not look at the mode
NeedNewThreadAnyMode(tsize) ==
    /\ tsize > idleThreadSize_
    /\ curThreadSize_ < threadSizeThreshold_

\* the condition of the cached-mode growth in submitTask, with the task counted
NeedNewThread(tsize) ==
    /\ poolMode_ = MODE_CACHED
    /\ tsize > idleThreadSize_
    /\ curThreadSize_ < threadSizeThreshold_

\* a variant of the retirement test that does not look at the two sizes
ExceedsInitAlways(cur, init) == TRUE

\* curThreadSize_ > initThreadSize_ : an int compared with a size_t, so the int
\* is converted to unsigned and a negative count compares as a huge one
ExceedsInit(cur, init) ==
    IF (cur < 0) = (init < 0) THEN cur > init ELSE cur < 0

\* the destructor's wait predicate
AllThreadsGone == curThreadSize_ = 0

\* the slot of the next OS thread to be launched
FreeSlots == {w \in Workers : wpc[w] = "unborn"}
NextSlot == CHOOSE w \in FreeSlots : \A v \in FreeSlots : w <= v

\* Thread::start(): a detached OS thread begins threadFunc(id)
Launch(pcs, w) == [pcs EXCEPT ![w] = "start"]

\* the end of the scope of a std::unique_lock on taskQueMtx_
Unlock == Free

\* worker threads still inside threadFunc
LiveWorkers == {w \in Workers : wpc[w] \notin {"unborn", "exited"}}

\* ---------------------------------------------------------------------------
\* the owner thread: setters, start, destructor
\* ---------------------------------------------------------------------------

OwnerCanCall == opc \in {"config", "running"}
NoSubmitInProgress == \A c \in Clients : cpc[c] \in {"idle", "holding", "semwait"}

\* void ThreadPool::setMode(PoolMode mode)
SetMode(mode) ==
    /\ Alive /\ OwnerCanCall /\ NoSubmitInProgress
    /\ poolMode_' = IF checkRunningState THEN poolMode_ ELSE mode
    /\ UNCHANGED <<taskQueMaxThreshold_, threadSizeThreshold_, initThreadSize_,
                   curThreadSize_, idleThreadSize_, taskSize_, isPoolRunning_,
                   taskQue_, threads_, taskQueMtx_, generateId_>>
    /\ UNCHANGED <<resultVars, ownerVars, clientVars, workerVars, crashed, histVars>>

\* void ThreadPool::setTaskQueMaxThreshold(int threshold)
SetTaskQueMaxThreshold(threshold) ==
    /\ Alive /\ OwnerCanCall /\ NoSubmitInProgress
    /\ taskQueMaxThreshold_' =
          IF checkRunningState THEN taskQueMaxThreshold_
          ELSE IF threshold <= 0 \/ threshold > TASK_MAX_THRESHOLD THEN taskQueMaxThreshold_
          ELSE threshold
    /\ UNCHANGED <<poolMode_, threadSizeThreshold_, initThreadSize_,
                   curThreadSize_, idleThreadSize_, taskSize_, isPoolRunning_,
                   taskQue_, threads_, taskQueMtx_, generateId_>>
    /\ UNCHANGED <<resultVars, ownerVars, clientVars, workerVars, crashed, histVars>>

\* void ThreadPool::setThreadSizeThreshold(int threshold)
SetThreadSizeThreshold(threshold) ==
    /\ Alive /\ OwnerCanCall /\ NoSubmitInProgress
    /\ threadSizeThreshold_' =
          IF checkRunningState THEN threadSizeThreshold_
          ELSE IF poolMode_ # MODE_CACHED THEN threadSizeThreshold_
          ELSE IF threshold <= 0 \/ threshold > THREAD_MAX_THRESHOLD THEN threadSizeThreshold_
          ELSE threshold
    /\ UNCHANGED <<poolMode_, taskQueMaxThreshold_, initThreadSize_,
                   curThreadSize_, idleThreadSize_, taskSize_, isPoolRunning_,
                   taskQue_, threads_, taskQueMtx_, generateId_>>
    /\ UNCHANGED <<resultVars, ownerVars, clientVars, workerVars, crashed, histVars>>

\* ThreadPool::start(initThreadSize), first statement: isPoolRunning_ = true
StartBegin(n) ==
    /\ Alive /\ opc = "config" /\ NoSubmitInProgress
    /\ generateId_ + n <= MaxThreads
    /\ isPoolRunning_' = TRUE
    /\ startArg' = n
    /\ opc' = "start_sizes"
    /\ UNCHANGED <<poolMode_, taskQueMaxThreshold_, threadSizeThreshold_, initThreadSize_,
                   curThreadSize_, idleThreadSize_, taskSize_,
                   taskQue_, threads_, taskQueMtx_, generateId_>>
    /\ UNCHANGED <<resultVars, startIdx, clientVars, workerVars, crashed, histVars>>

\* the ids start gives to the Thread objects it creates
NewIds(n) == {i \in Ids : generateId_ <= i /\ i < generateId_ + n}

\* ThreadPool::start from initThreadSize_ = initThreadSize to the end of its
\* first loop: the two sizes and one Thread record per initial thread, none
\* launched yet
StartSizes ==
    /\ Alive /\ opc = "start_sizes"
    /\ initThreadSize_' = startArg
    /\ curThreadSize_' = startArg
    /\ threads_' = [i \in Ids |-> IF i \in NewIds(startArg) THEN "thread" ELSE threads_[i]]
    /\ generateId_' = generateId_ + startArg
    /\ startIdx' = 0
    /\ opc' = IF startArg = 0 THEN "running" ELSE "starting"
    /\ UNCHANGED <<poolMode_, taskQueMaxThreshold_, threadSizeThreshold_,
                   idleThreadSize_, taskSize_, isPoolRunning_, taskQue_, taskQueMtx_>>
    /\ UNCHANGED <<resultVars, startArg, clientVars, workerVars, crashed, histVars>>

\* one pass of start's second loop, first half: threads_[i]->start()
StartLaunch ==
    /\ Alive /\ opc = "starting"
    /\ threads_[startIdx] = "thread"
    /\ FreeSlots # {}
    /\ wpc' = Launch(wpc, NextSlot)
    /\ wid' = [wid EXCEPT ![NextSlot] = startIdx]
    /\ opc' = "counting"
    /\ UNCHANGED <<poolVars, resultVars, startArg, startIdx, clientVars, wtask, crashed, histVars>>

\* one pass of start's second loop when the map has no record under i:
\* operator[] inserts an empty unique_ptr and the call goes through a null
\* pointer.  The process is aborted, or the call has no effect and start goes on.
StartLaunchNull ==
    /\ Alive /\ opc = "starting"
    /\ threads_[startIdx] # "thread"
    /\ threads_' = [threads_ EXCEPT ![startIdx] = "null"]
    /\ \/ /\ crashed' = TRUE
          /\ opc' = opc
       \/ /\ crashed' = FALSE
          /\ opc' = "counting"
    /\ UNCHANGED <<poolMode_, taskQueMaxThreshold_, threadSizeThreshold_, initThreadSize_,
                   curThreadSize_, idleThreadSize_, taskSize_, isPoolRunning_,
                   taskQue_, taskQueMtx_, generateId_>>
    /\ UNCHANGED <<resultVars, startArg, startIdx, clientVars, workerVars, histVars>>

\* one pass of start's second loop, second half: ++idleThreadSize_, i++; start
\* returns when the loop ends
StartCount ==
    /\ Alive /\ opc = "counting"
    /\ idleThreadSize_' = idleThreadSize_ + 1
    /\ startIdx' = startIdx + 1
    /\ opc' = IF startIdx + 1 < initThreadSize_ THEN "starting" ELSE "running"
    /\ UNCHANGED <<poolMode_, taskQueMaxThreshold_, threadSizeThreshold_, initThreadSize_,
                   curThreadSize_, taskSize_, isPoolRunning_,
                   taskQue_, threads_, taskQueMtx_, generateId_>>
    /\ UNCHANGED <<resultVars, startArg, clientVars, workerVars, crashed, histVars>>

\* the calls of the tasks that are in the queue
QueuedCalls == {taskQue_[i].call : i \in 1..Len(taskQue_)}

\* ThreadPool::~ThreadPool, first statement: isPoolRunning_ = false
DtorEnter ==
    /\ Alive /\ OwnerCanCall /\ NoSubmitInProgress
    /\ isPoolRunning_' = FALSE
    /\ opc' = "dtor_lock"
    /\ atShutdown' = QueuedCalls
    /\ UNCHANGED <<poolMode_, taskQueMaxThreshold_, threadSizeThreshold_, initThreadSize_,
                   curThreadSize_, idleThreadSize_, taskSize_,
                   taskQue_, threads_, taskQueMtx_, generateId_>>
    /\ UNCHANGED <<resultVars, startArg, startIdx, clientVars, workerVars, crashed,
                   appended, popped, published, ran, execCalls, bodyRuns, callTask>>

\* the destructor's wait on exitCond_ with its predicate: return with the
\* lock released, or suspend with the lock released
DtorWait ==
    /\ opc' = IF AllThreadsGone THEN "done" ELSE "dtor_wait"
    /\ taskQueMtx_' = Unlock

\* ThreadPool::~ThreadPool: lock, notEmpty_.notify_all(), exitCond_.wait
DtorLock ==
    /\ Alive /\ opc = "dtor_lock" /\ taskQueMtx_ = Free
    /\ wpc' = NotifyNotEmpty(wpc)
    /\ DtorWait
    /\ UNCHANGED <<poolMode_, taskQueMaxThreshold_, threadSizeThreshold_, initThreadSize_,
                   curThreadSize_, idleThreadSize_, taskSize_, isPoolRunning_,
                   taskQue_, threads_, generateId_>>
    /\ UNCHANGED <<resultVars, startArg, startIdx, clientVars, wid, wtask, crashed, histVars>>

\* a spurious wake-up of the destructor's wait
DtorSpurious ==
    /\ Alive /\ opc = "dtor_wait"
    /\ opc' = "dtor_woken"
    /\ UNCHANGED <<poolVars, resultVars, startArg, startIdx, clientVars, workerVars,
                   crashed, histVars>>

\* the destructor's wait re-acquires the lock and tests its predicate again
DtorRelock ==
    /\ Alive /\ opc = "dtor_woken" /\ taskQueMtx_ = Free
    /\ DtorWait
    /\ UNCHANGED <<poolMode_, taskQueMaxThreshold_, threadSizeThreshold_, initThreadSize_,
                   curThreadSize_, idleThreadSize_, taskSize_, isPoolRunning_,
                   taskQue_, threads_, generateId_>>
    /\ UNCHANGED <<resultVars, startArg, startIdx, clientVars, workerVars, crashed, histVars>>

\* ---------------------------------------------------------------------------
\* client threads: std::shared_ptr<Result> ThreadPool::submitTask(sp)
\* ---------------------------------------------------------------------------

\* a variant of the push that lets go of the lock before the Result is attached
SubmitPushUnlocks(c, call, t) ==
    /\ taskQue_' = Append(taskQue_, [task |-> t, call |-> call])
    /\ taskSize_' = taskSize_ + 1
    /\ appended' = Append(appended, call)
    /\ IF NeedNewThread(taskSize_ + 1)
       THEN /\ generateId_ < MaxThreads
            /\ FreeSlots # {}
            /\ threads_' = [threads_ EXCEPT ![generateId_] = "thread"]
            /\ wpc' = Launch(NotifyNotEmpty(wpc), NextSlot)
            /\ wid' = [wid EXCEPT ![NextSlot] = generateId_]
            /\ generateId_' = generateId_ + 1
            /\ curThreadSize_' = curThreadSize_ + 1
            /\ idleThreadSize_' = idleThreadSize_ + 1
       ELSE /\ wpc' = NotifyNotEmpty(wpc)
            /\ UNCHANGED <<threads_, wid, generateId_, curThreadSize_, idleThreadSize_>>
    /\ taskQueMtx_' = Free
    /\ cpc' = [cpc EXCEPT ![c] = "attach"]
    /\ UNCHANGED <<poolMode_, taskQueMaxThreshold_, threadSizeThreshold_, initThreadSize_,
                   isPoolRunning_, resultVars, ownerVars, wtask, crashed,
                   popped, published, ran, execCalls, bodyRuns, atShutdown>>

\* submitTask from taskQue_.emplace(sp) to the end of the cached-mode growth,
\* run by client c with the lock held; the lock stays held for the next step
SubmitPush(c, call, t) ==
    /\ taskQue_' = Append(taskQue_, [task |-> t, call |-> call])
    /\ taskSize_' = taskSize_ + 1
    /\ appended' = Append(appended, call)
    /\ IF NeedNewThread(taskSize_ + 1)
       THEN /\ generateId_ < MaxThreads
            /\ FreeSlots # {}
            /\ threads_' = [threads_ EXCEPT ![generateId_] = "thread"]
            /\ wpc' = Launch(NotifyNotEmpty(wpc), NextSlot)
            /\ wid' = [wid EXCEPT ![NextSlot] = generateId_]
            /\ generateId_' = generateId_ + 1
            /\ curThreadSize_' = curThreadSize_ + 1
            /\ idleThreadSize_' = idleThreadSize_ + 1
       ELSE /\ wpc' = NotifyNotEmpty(wpc)
            /\ UNCHANGED <<threads_, wid, generateId_, curThreadSize_, idleThreadSize_>>
    /\ taskQueMtx_' = Client(c)
    /\ cpc' = [cpc EXCEPT ![c] = "attach"]
    /\ UNCHANGED <<poolMode_, taskQueMaxThreshold_, threadSizeThreshold_, initThreadSize_,
                   isPoolRunning_, resultVars, ownerVars, wtask, crashed,
                   popped, published, ran, execCalls, bodyRuns, atShutdown>>

\* client c calls submitTask with its task (letting go of a Result it may
\* still hold): it takes the lock and tests the wait_for predicate; with room
\* it goes on to push, otherwise it suspends in notFull_
SubmitEnter(c) ==
    /\ Alive /\ OwnerCanCall /\ cpc[c] \in {"idle", "holding"}
    /\ nCalls < MaxSubmits
    /\ taskQueMtx_ = Free
    /\ nCalls' = nCalls + 1
    /\ ccall' = [ccall EXCEPT ![c] = nCalls + 1]
    /\ callTask' = [callTask EXCEPT ![nCalls + 1] = TaskOf(c)]
    /\ got' = got
    /\ IF QueueHasRoom
       THEN SubmitPush(c, nCalls + 1, TaskOf(c))
       ELSE /\ cpc' = [cpc EXCEPT ![c] = "waitFull"]
            /\ UNCHANGED <<poolVars, resultVars, ownerVars, workerVars, crashed,
                           appended, popped, published, ran, execCalls, bodyRuns, atShutdown>>

\* the one second of notFull_.wait_for runs out
SubmitTimeout(c) ==
    /\ Alive /\ cpc[c] = "waitFull"
    /\ cpc' = [cpc EXCEPT ![c] = "fullTimedout"]
    /\ UNCHANGED <<poolVars, resultVars, ownerVars, ccall, nCalls, got, workerVars,
                   crashed, histVars>>

\* a spurious wake-up of notFull_.wait_for
SubmitSpurious(c) ==
    /\ Alive /\ cpc[c] = "waitFull"
    /\ cpc' = [cpc EXCEPT ![c] = "fullNotified"]
    /\ UNCHANGED <<poolVars, resultVars, ownerVars, ccall, nCalls, got, workerVars,
                   crashed, histVars>>

\* a variant of the failure return that attaches the rejected call's Result to
\* the task, as the success return does
SubmitRejectAttaches(c) ==
    /\ isValid_' = [isValid_ EXCEPT ![ccall[c]] = "invalid"]
    /\ result_' = [result_ EXCEPT ![TaskOf(c)] = ccall[c]]
    /\ cpc' = [cpc EXCEPT ![c] = "holding"]
    /\ UNCHANGED <<poolVars, any_, resLimit_, ownerVars, ccall, nCalls, got,
                   workerVars, crashed, histVars>>

\* return std::make_shared<Result>(false): nothing of the pool or the task changes
SubmitReject(c) ==
    /\ isValid_' = [isValid_ EXCEPT ![ccall[c]] = "invalid"]
    /\ cpc' = [cpc EXCEPT ![c] = "holding"]
    /\ UNCHANGED <<poolVars, result_, any_, resLimit_, ownerVars, ccall, nCalls, got,
                   workerVars, crashed, histVars>>

\* notFull_.wait_for re-acquires the lock: push if there is room now, fail if
\* the wait had timed out, wait again otherwise
SubmitRelock(c) ==
    /\ Alive /\ cpc[c] \in {"fullNotified", "fullTimedout"}
    /\ taskQueMtx_ = Free
    /\ IF QueueHasRoom
       THEN /\ SubmitPush(c, ccall[c], TaskOf(c))
            /\ UNCHANGED <<ccall, nCalls, got, callTask>>
       ELSE IF cpc[c] = "fullTimedout"
       THEN SubmitReject(c)
       ELSE /\ cpc' = [cpc EXCEPT ![c] = "waitFull"]
            /\ UNCHANGED <<poolVars, resultVars, ownerVars, ccall, nCalls, got,
                           workerVars, crashed, histVars>>

\* void Task::setResult(std::shared_ptr<Result> res)
setResult(t, res) == [result_ EXCEPT ![t] = res]

\* the end of submitTask: a valid Result is made and attached to the task, and
\* the return releases the lock
SubmitAttach(c) ==
    /\ Alive /\ cpc[c] = "attach"
    /\ isValid_' = [isValid_ EXCEPT ![ccall[c]] = "valid"]
    /\ result_' = setResult(TaskOf(c), ccall[c])
    /\ taskQueMtx_' = Unlock
    /\ cpc' = [cpc EXCEPT ![c] = "holding"]
    /\ UNCHANGED <<poolMode_, taskQueMaxThreshold_, threadSizeThreshold_, initThreadSize_,
                   curThreadSize_, idleThreadSize_, taskSize_, isPoolRunning_,
                   taskQue_, threads_, generateId_>>
    /\ UNCHANGED <<any_, resLimit_, ownerVars, ccall, nCalls, got, workerVars, crashed,
                   histVars>>

\* ---------------------------------------------------------------------------
\* client threads: Any Result::get()
\* ---------------------------------------------------------------------------

\* the client calls get() on the Result it was given: an invalid Result
\* returns "" at once, a valid one goes to sem_.wait()
GetCall(c) ==
    /\ Alive /\ cpc[c] = "holding"
    /\ IF isValid_[ccall[c]] = "invalid"
       THEN /\ cpc' = [cpc EXCEPT ![c] = "idle"]
            /\ got' = [got EXCEPT ![ccall[c]] = Sentinel]
            /\ ccall' = [ccall EXCEPT ![c] = 0]
       ELSE /\ cpc' = [cpc EXCEPT ![c] = "semwait"]
            /\ UNCHANGED <<got, ccall>>
    /\ UNCHANGED <<poolVars, resultVars, ownerVars, nCalls, workerVars, crashed, histVars>>

\* void Semaphore::wait(): it returns only when resLimit_ > 0
CanPassWait(h) == resLimit_[h] > 0

\* a worker is inside Task::exec on a task whose result_ is h: its setVal
\* assigns any_ with no lock held
SetValInProgress(h) ==
    \E w \in Workers : wpc[w] = "exec" /\ result_[wtask[w].task] = h

\* what return std::move(any_) may read: the stored value, or, when a setVal
\* on the same Result is assigning any_ at the same time (a data race), a
\* value that is neither the old nor the new one
MovedFrom(h) == IF SetValInProgress(h) THEN {any_[h], Torn} ELSE {any_[h]}

\* sem_.wait() returns and get() returns std::move(any_)
GetReturn(c) ==
    /\ Alive /\ cpc[c] = "semwait"
    /\ CanPassWait(ccall[c])
    /\ resLimit_' = [resLimit_ EXCEPT ![ccall[c]] = resLimit_[ccall[c]] - 1]
    /\ \E v \in MovedFrom(ccall[c]) : got' = [got EXCEPT ![ccall[c]] = v]
    /\ any_' = [any_ EXCEPT ![ccall[c]] = Empty]
    /\ cpc' = [cpc EXCEPT ![c] = "idle"]
    /\ ccall' = [ccall EXCEPT ![c] = 0]
    /\ UNCHANGED <<poolVars, result_, isValid_, ownerVars, nCalls, workerVars, crashed,
                   histVars>>

\* ---------------------------------------------------------------------------
\* worker threads: void ThreadPool::threadFunc(int threadid)
\* ---------------------------------------------------------------------------

\* std::unique_lock<std::mutex> lock(taskQueMtx_) at the top of the loop, or
\* the re-acquisition when a notified wait on notEmpty_ returns
WorkerLock(w) ==
    /\ Alive /\ wpc[w] \in {"start", "notified"}
    /\ taskQueMtx_ = Free
    /\ taskQueMtx_' = Worker(w)
    /\ wpc' = [wpc EXCEPT ![w] = "locked"]
    /\ UNCHANGED <<poolMode_, taskQueMaxThreshold_, threadSizeThreshold_, initThreadSize_,
                   curThreadSize_, idleThreadSize_, taskSize_, isPoolRunning_,
                   taskQue_, threads_, generateId_>>
    /\ UNCHANGED <<resultVars, ownerVars, clientVars, wid, wtask, crashed, histVars>>

\* the one second of notEmpty_.wait_for runs out (cached mode only)
WorkerTimeout(w) ==
    /\ Alive /\ wpc[w] = "waiting"
    /\ poolMode_ = MODE_CACHED
    /\ wpc' = [wpc EXCEPT ![w] = "timedout"]
    /\ UNCHANGED <<poolVars, resultVars, ownerVars, clientVars, wid, wtask,
                   crashed, histVars>>

\* a spurious wake-up of the wait on notEmpty_
WorkerSpurious(w) ==
    /\ Alive /\ wpc[w] = "waiting"
    /\ wpc' = [wpc EXCEPT ![w] = "notified"]
    /\ UNCHANGED <<poolVars, resultVars, ownerVars, clientVars, wid, wtask,
                   crashed, histVars>>

\* threads_.erase(threadid)
EraseThread(id) == [threads_ EXCEPT ![id] = "none"]

\* the idle-timeout exit: erase, curThreadSize_--, idleThreadSize_--, return
Retire(w) ==
    /\ threads_' = EraseThread(wid[w])
    /\ curThreadSize_' = curThreadSize_ - 1
    /\ idleThreadSize_' = idleThreadSize_ - 1
    /\ wpc' = [wpc EXCEPT ![w] = "exited"]
    /\ taskQueMtx_' = Unlock
    /\ opc' = opc

\* a timed-out wait_for re-acquires the lock and returns cv_status::timeout;
\* the worker retires if it has been idle for more than THREAD_MAX_IDLE_TIME
\* and the pool is above its initial size, and goes round its loop otherwise
WorkerTimeoutRelock(w) ==
    /\ Alive /\ wpc[w] = "timedout"
    /\ taskQueMtx_ = Free
    /\ \E idleTooLong \in BOOLEAN :
          IF idleTooLong /\ ExceedsInit(curThreadSize_, initThreadSize_)
          THEN Retire(w)
          ELSE /\ taskQueMtx_' = Worker(w)
               /\ wpc' = [wpc EXCEPT ![w] = "locked"]
               /\ UNCHANGED <<threads_, curThreadSize_, idleThreadSize_, opc>>
    /\ UNCHANGED <<poolMode_, taskQueMaxThreshold_, threadSizeThreshold_, initThreadSize_,
                   taskSize_, isPoolRunning_, taskQue_, generateId_>>
    /\ UNCHANGED <<resultVars, startArg, startIdx, clientVars, wid, wtask, crashed, histVars>>

\* a variant of the take that reads the back of the queue
FrontIsBack(q) == q[Len(q)]

\* task = taskQue_.front(): the entry a worker takes
Front(q) == Head(q)

\* taskQue_.pop(): the queue a worker leaves
Pop(q) == Tail(q)

\* the lock a worker holds when it leaves the block in which it took a task
AfterTake(w) == Unlock

\* threadFunc from idleThreadSize_-- to the end of the locked block
TakeTask(w) ==
    /\ idleThreadSize_' = idleThreadSize_ - 1
    /\ wtask' = [wtask EXCEPT ![w] = Front(taskQue_)]
    /\ taskQue_' = Pop(taskQue_)
    /\ taskSize_' = taskSize_ - 1
    /\ popped' = Append(popped, Front(taskQue_).call)
    /\ wpc' = [(IF Len(taskQue_) > 1 THEN NotifyNotEmpty(wpc) ELSE wpc) EXCEPT ![w] = "exec"]
    /\ cpc' = NotifyNotFull(cpc)
    /\ taskQueMtx_' = AfterTake(w)
    /\ UNCHANGED <<curThreadSize_, isPoolRunning_>>

\* what a worker that finds the queue empty does with the running flag set
WaitForTask(w) ==
    /\ wpc' = [wpc EXCEPT ![w] = "waiting"]
    /\ taskQueMtx_' = Free

\* what a worker that finds the queue empty does with the running flag clear:
\* it goes on to the shutdown exit, the lock still held
LeaveLoop(w) ==
    /\ wpc' = [wpc EXCEPT ![w] = "exiting"]
    /\ taskQueMtx_' = taskQueMtx_

\* a variant of the loop test that looks at the running flag before the queue
WorkerScanStopsAtShutdown(w) ==
    /\ Alive /\ wpc[w] = "locked"
    /\ IF ~isPoolRunning_ \/ Len(taskQue_) = 0
       THEN /\ IF ~isPoolRunning_ THEN LeaveLoop(w) ELSE WaitForTask(w)
            /\ UNCHANGED <<idleThreadSize_, wtask, taskQue_, taskSize_, popped, cpc,
                           curThreadSize_, isPoolRunning_>>
       ELSE TakeTask(w)
    /\ UNCHANGED <<poolMode_, taskQueMaxThreshold_, threadSizeThreshold_, initThreadSize_,
                   threads_, generateId_>>
    /\ UNCHANGED <<resultVars, ownerVars, ccall, nCalls, got, wid, crashed,
                   appended, published, ran, execCalls, bodyRuns, callTask, atShutdown>>

\* one test of while (taskQue_.size() == 0) with the lock held
WorkerScan(w) ==
    /\ Alive /\ wpc[w] = "locked"
    /\ IF Len(taskQue_) = 0
       THEN /\ IF ~isPoolRunning_ THEN LeaveLoop(w) ELSE WaitForTask(w)
            /\ UNCHANGED <<idleThreadSize_, wtask, taskQue_, taskSize_, popped, cpc,
                           curThreadSize_, isPoolRunning_>>
       ELSE TakeTask(w)
    /\ UNCHANGED <<poolMode_, taskQueMaxThreshold_, threadSizeThreshold_, initThreadSize_,
                   threads_, generateId_>>
    /\ UNCHANGED <<resultVars, ownerVars, ccall, nCalls, got, wid, crashed,
                   appended, published, ran, execCalls, bodyRuns, callTask, atShutdown>>

\* the shutdown exit: erase, --curThreadSize_, exitCond_.notify_all(), return
WorkerExit(w) ==
    /\ Alive /\ wpc[w] = "exiting"
    /\ threads_' = EraseThread(wid[w])
    /\ curThreadSize_' = curThreadSize_ - 1
    /\ opc' = NotifyExit(opc)
    /\ wpc' = [wpc EXCEPT ![w] = "exited"]
    /\ taskQueMtx_' = Unlock
    /\ UNCHANGED <<poolMode_, taskQueMaxThreshold_, threadSizeThreshold_, initThreadSize_,
                   idleThreadSize_, taskSize_, isPoolRunning_, taskQue_, generateId_>>
    /\ UNCHANGED <<resultVars, startArg, startIdx, clientVars, wid, wtask, crashed, histVars>>

\* Any Task::run() of the task object t: each task returns a value of its own
run(t) == Value(t)

\* void Semaphore::post()
post(h) == [resLimit_ EXCEPT ![h] = resLimit_[h] + 1]

\* void Result::setVal(Any any)
setVal(h, v) ==
    /\ any_' = [any_ EXCEPT ![h] = v]
    /\ resLimit_' = post(h)
    /\ published' = [published EXCEPT ![h] = published[h] + 1]

\* void Task::exec(): run() is called, and its value handed to setVal, only
\* when result_ is not null
exec(t) ==
    /\ execCalls' = [execCalls EXCEPT ![t] = execCalls[t] + 1]
    /\ IF result_[t] # Nullptr
       THEN /\ setVal(result_[t], run(t))
            /\ bodyRuns' = [bodyRuns EXCEPT ![t] = bodyRuns[t] + 1]
       ELSE UNCHANGED <<any_, resLimit_, published, bodyRuns>>

\* task->exec(), outside the lock
WorkerExec(w) ==
    /\ Alive /\ wpc[w] = "exec"
    /\ exec(wtask[w].task)
    /\ ran' = IF result_[wtask[w].task] # Nullptr THEN ran \cup {wtask[w].call} ELSE ran
    /\ wpc' = [wpc EXCEPT ![w] = "postexec"]
    /\ UNCHANGED <<poolVars, result_, isValid_, ownerVars, clientVars, wid, wtask,
                   crashed, appended, popped, callTask, atShutdown>>

\* ++idleThreadSize_ and the new lastTime, then round the loop
WorkerPostExec(w) ==
    /\ Alive /\ wpc[w] = "postexec"
    /\ idleThreadSize_' = idleThreadSize_ + 1
    /\ wpc' = [wpc EXCEPT ![w] = "start"]
    /\ wtask' = [wtask EXCEPT ![w] = NoEntry]
    /\ UNCHANGED <<poolMode_, taskQueMaxThreshold_, threadSizeThreshold_, initThreadSize_,
                   curThreadSize_, taskSize_, isPoolRunning_,
                   taskQue_, threads_, taskQueMtx_, generateId_>>
    /\ UNCHANGED <<resultVars, ownerVars, clientVars, wid, crashed, histVars>>

\* Task::exec reads result_ with no lock held; when the same Task object is
\* being submitted again its setResult assigns result_ at the same time (a data
\* race on the shared_ptr).  The exec may read the old or the new pointer (the
\* worker actions) or a damaged one, which aborts the process.
ResultRace(w) ==
    /\ Alive /\ wpc[w] = "exec"
    /\ \E c \in Clients : cpc[c] = "attach" /\ TaskOf(c) = wtask[w].task
    /\ crashed' = TRUE
    /\ UNCHANGED <<poolVars, resultVars, ownerVars, clientVars, workerVars, histVars>>

\* a worker that outlives the pool object works on freed memory; the process
\* may go on as if the memory were intact (the worker actions) or be aborted
UseAfterFree ==
    /\ Alive /\ opc = "done" /\ LiveWorkers # {}
    /\ crashed' = TRUE
    /\ UNCHANGED <<poolVars, resultVars, ownerVars, clientVars, workerVars, histVars>>

\* ---------------------------------------------------------------------------
\* the specification
\* ---------------------------------------------------------------------------

Next ==
    \/ \E mode \in PoolMode : SetMode(mode)
    \/ \E threshold \in QueThresholdArgs : SetTaskQueMaxThreshold(threshold)
    \/ \E threshold \in ThreadThresholdArgs : SetThreadSizeThreshold(threshold)
    \/ \E n \in InitArgs : StartBegin(n)
    \/ StartSizes
    \/ StartLaunch
    \/ StartLaunchNull
    \/ StartCount
    \/ DtorEnter
    \/ DtorLock
    \/ DtorSpurious
    \/ DtorRelock
    \/ \E c \in Clients : SubmitEnter(c)
    \/ \E c \in Clients : SubmitTimeout(c)
    \/ \E c \in Clients : SubmitSpurious(c)
    \/ \E c \in Clients : SubmitRelock(c)
    \/ \E c \in Clients : SubmitAttach(c)
    \/ \E w \in Workers : WorkerLock(w)
    \/ \E w \in Workers : WorkerTimeout(w)
    \/ \E w \in Workers : WorkerSpurious(w)
    \/ \E w \in Workers : WorkerTimeoutRelock(w)
    \/ \E w \in Workers : WorkerScan(w)
    \/ \E w \in Workers : WorkerExit(w)
    \/ \E w \in Workers : WorkerExec(w)
    \/ \E w \in Workers : WorkerPostExec(w)
    \/ \E w \in Workers : ResultRace(w)
    \/ UseAfterFree
    \/ \E c \in Clients : GetCall(c)
    \/ \E c \in Clients : GetReturn(c)

Spec == Init /\ [][Next]_vars

\* ---------------------------------------------------------------------------
\* the pool under fair scheduling, used the way the header's example uses it:
\* tasks are submitted to a started pool only, every timed wait runs out,
\* every thread that can take a step (or the lock) in the end takes it, and
\* there are no spurious wake-ups
\* ---------------------------------------------------------------------------

\* a submitTask call on a pool that start() has returned from
SubmitToStarted(c) == opc = "running" /\ SubmitEnter(c)

FairNext ==
    \/ \E mode \in PoolMode : SetMode(mode)
    \/ \E n \in InitArgs : StartBegin(n)
    \/ StartSizes
    \/ StartLaunch
    \/ StartCount
    \/ DtorEnter
    \/ DtorLock
    \/ DtorRelock
    \/ \E c \in Clients : SubmitToStarted(c)
    \/ \E c \in Clients : SubmitAttach(c)
    \/ \E w \in Workers : WorkerLock(w)
    \/ \E w \in Workers : WorkerTimeout(w)
    \/ \E w \in Workers : WorkerTimeoutRelock(w)
    \/ \E w \in Workers : WorkerScan(w)
    \/ \E w \in Workers : WorkerExit(w)
    \/ \E w \in Workers : WorkerExec(w)
    \/ \E w \in Workers : WorkerPostExec(w)
    \/ \E w \in Workers : ResultRace(w)

Fairness ==
    /\ SF_vars(DtorLock) /\ SF_vars(DtorRelock)
    /\ WF_vars(StartSizes) /\ WF_vars(StartLaunch) /\ WF_vars(StartCount)
    /\ \A c \in Clients : WF_vars(SubmitAttach(c))
    /\ \A w \in Workers :
          /\ SF_vars(WorkerLock(w)) /\ SF_vars(WorkerTimeoutRelock(w))
          /\ WF_vars(WorkerTimeout(w)) /\ WF_vars(WorkerScan(w))
          /\ WF_vars(WorkerExit(w)) /\ WF_vars(WorkerExec(w))
          /\ WF_vars(WorkerPostExec(w))

FairSpec == Init /\ [][FairNext]_vars /\ Fairness

\* the pool used as documented (configure, start, then submit and get), with no
\* fairness: every behaviour of it is a behaviour of Spec
StartedFirstNext ==
    \/ FairNext
    \/ \E c \in Clients : GetCall(c)
    \/ \E c \in Clients : GetReturn(c)

StartedFirstSpec == Init /\ [][StartedFirstNext]_vars

\* the step of worker w that takes the idle-timeout exit
RetireStep(w) == WorkerTimeoutRelock(w) /\ wpc'[w] = "exited"

\* the fair pool in which, besides, a worker that keeps timing out above the
\* initial size in the end finds its idle time above THREAD_MAX_IDLE_TIME
IdleFairSpec == FairSpec /\ \A w \in Workers : SF_vars(RetireStep(w))

\* ---------------------------------------------------------------------------
\* properties
\* ---------------------------------------------------------------------------

Range(q) == {q[i] : i \in 1..Len(q)}

\* the pool has been started and its destructor has not been entered
Started == opc = "running"

\* the destructor has been entered and has not returned
InDtor == opc \in {"dtor_lock", "dtor_wait", "dtor_woken"}

\* C1 as stated: for a valid Result, once a worker has executed the queue
\* entry of that submitTask call, setVal() has been called on that Result (so
\* that get() can return); and when get() has returned, setVal() had been
\* called and the value returned is the one run() of that call's task returns,
\* not the value of another task and not an empty or damaged Any.
C1_GetReturnsRunValue ==
    \A h \in Handles :
        isValid_[h] = "valid"
            => /\ h \in ran => published[h] > 0
               /\ got[h] # NotReturned
                     => (published[h] > 0 /\ got[h] = run(callTask[h]))

\* no Task object has been handed to submitTask twice
NoResubmit ==
    \A h1, h2 \in Handles : (callTask[h1] # 0 /\ callTask[h1] = callTask[h2]) => h1 = h2

\* C2 as stated, for tasks that are submitted once: in a started pool with a
\* live worker, a task that submitTask accepted (a valid Result was returned for
\* it) is in the end run by a worker and its Result published.
C2_AcceptedIsDelivered ==
    \A h \in Handles :
        (opc = "running" /\ LiveWorkers # {} /\ isValid_[h] = "valid" /\ NoResubmit)
            ~> ((h \in ran /\ published[h] > 0) \/ ~NoResubmit)

\* C3 as stated: once the destructor has been entered it returns.
C3_DtorReturns == (opc = "dtor_lock") ~> (opc = "done")

C5_DtorReturnsAfterAllWorkers ==
    opc = "done" => (curThreadSize_ = 0 /\ LiveWorkers = {})

\* C6 as stated: 0 <= idleThreadSize_ <= curThreadSize_ in every state.
C6_IdleWithinCur ==
    0 <= idleThreadSize_ /\ idleThreadSize_ <= curThreadSize_

\* C7 as stated: between the return of start and the entry of the destructor,
\* initThreadSize_ <= curThreadSize_ <= threadSizeThreshold_ in cached mode, and
\* curThreadSize_ = initThreadSize_ <= threadSizeThreshold_ in fixed mode.
C7_CurWithinBounds ==
    Started =>
        IF poolMode_ = MODE_CACHED
        THEN initThreadSize_ <= curThreadSize_ /\ curThreadSize_ <= threadSizeThreshold_
        ELSE curThreadSize_ = initThreadSize_ /\ curThreadSize_ <= threadSizeThreshold_

\* C8 as stated: whenever the queue mutex is not held the queue holds at most
\* taskQueMaxThreshold_ tasks, and every append starts from a queue that is
\* strictly below the threshold.
C8_QueueWithinThreshold ==
    /\ [](taskQueMtx_ = Free => Len(taskQue_) <= taskQueMaxThreshold_)
    /\ [][Len(taskQue_') > Len(taskQue_) => Len(taskQue_) < taskQueMaxThreshold_]_vars

\* C9: tasks are popped in the order in which they were appended: the sequence
\* of popped calls is a prefix of the sequence of appended calls.
C9_Fifo ==
    /\ Len(popped) <= Len(appended)
    /\ \A i \in 1..Len(popped) : popped[i] = appended[i]

\* C9 witness: two tasks were appended and popped, by two different workers
C9_Witness ==
    /\ Len(popped) = 2
    /\ \E v, w \in Workers : v # w /\ wpc[v] = "exec" /\ wpc[w] = "exec"

\* C10: a submitTask call that ends with an invalid Result found the queue full
\* and changes neither the queue, the three counters, the worker map nor any
\* task's result_; no task is ever appended or run, and nothing published, for
\* an invalid Result; a get() on an invalid Result returns "" in the step that
\* calls it, never entering sem_.wait() and leaving the semaphore alone.
C10_AdmissionFailure ==
    /\ [](\A h \in Handles :
            isValid_[h] = "invalid"
                => /\ h \notin Range(appended) /\ h \notin ran /\ published[h] = 0
                   /\ \A t \in Tasks : result_[t] # h
                   /\ resLimit_[h] = 0
                   /\ got[h] \in {NotReturned, Sentinel})
    /\ [][/\ \A h \in Handles :
              (isValid_[h] = "unborn" /\ isValid_'[h] = "invalid")
                  => /\ Len(taskQue_) >= taskQueMaxThreshold_
                     /\ UNCHANGED <<taskQue_, taskSize_, curThreadSize_, idleThreadSize_,
                                    threads_, result_, any_, resLimit_>>
          /\ \A c \in Clients :
              (cpc[c] = "holding" /\ isValid_[ccall[c]] = "invalid")
                  => ~(cpc'[c] = "semwait" /\ ccall'[c] = ccall[c])
          /\ \A h \in Handles :
              (isValid_[h] = "invalid" /\ got'[h] # got[h])
                  => /\ got'[h] = Sentinel
                     /\ \E c \in Clients :
                           ccall[c] = h /\ cpc[c] = "holding" /\ cpc'[c] = "idle"
                     /\ UNCHANGED <<resLimit_, any_>>
         ]_vars

\* C10 witness: a client has had "" back from get() on an invalid Result, and
\* the queue is at its threshold
C10_Witness ==
    /\ \E h \in Handles : isValid_[h] = "invalid" /\ got[h] = Sentinel
    /\ Len(taskQue_) >= taskQueMaxThreshold_

\* the scenario of C11: a started fixed-mode pool with a queue threshold of 1
\* and one worker, which is executing the task of the first submitTask call
OneSlotFirstExecuting ==
    /\ Started /\ poolMode_ = MODE_FIXED
    /\ taskQueMaxThreshold_ = 1 /\ initThreadSize_ = 1 /\ curThreadSize_ = 1
    /\ \E w \in Workers : wpc[w] = "exec" /\ wtask[w].call = 1

\* C11 as stated: in that scenario the first call has a valid Result, and a
\* second submitTask call that begins while the first task is executing is not
\* admitted to the queue (it can only end with an invalid Result).
C11_SecondRejected ==
    [][(OneSlotFirstExecuting /\ nCalls = 1 /\ nCalls' = 2)
          => (isValid_[1] = "valid" /\ 2 \notin Range(appended'))]_vars

\* C11 amended: the threshold bounds the tasks waiting in the queue, not the
\* one being executed.  A submitTask call that begins with the queue below the
\* threshold appends its task in that step, and a call whose task was appended
\* ends with a valid Result; a call ends with an invalid Result only from a
\* queue that is at the threshold.  So in the scenario the second call, begun
\* while the first task is executing and the queue is empty, is admitted.
C11_SecondAdmitted ==
    /\ [](\A h \in Range(appended) :
            \/ isValid_[h] = "valid"
            \/ \E c \in Clients : cpc[c] = "attach" /\ ccall[c] = h)
    /\ [][/\ (nCalls' = nCalls + 1 /\ Len(taskQue_) < taskQueMaxThreshold_)
                => appended' = Append(appended, nCalls + 1)
          /\ (OneSlotFirstExecuting /\ nCalls = 1 /\ nCalls' = 2 /\ Len(taskQue_) = 0)
                => (isValid_[1] = "valid" /\ taskQue_' = <<[task |-> callTask'[2], call |-> 2]>>)
          /\ \A h \in Handles :
                (isValid_[h] = "unborn" /\ isValid_'[h] = "invalid")
                    => (Len(taskQue_) >= taskQueMaxThreshold_ /\ h \notin Range(appended))
         ]_vars

\* C11 witness: in the scenario, with the first task still executing, the
\* second call has returned a valid Result and its task waits in the queue
C11_Witness ==
    /\ OneSlotFirstExecuting
    /\ isValid_[1] = "valid" /\ isValid_[2] = "valid"
    /\ Len(taskQue_) = 1 /\ taskQue_[1].call = 2

\* the three configuration fields
Configuration == <<poolMode_, taskQueMaxThreshold_, threadSizeThreshold_>>

\* C12: a setter call that is refused changes nothing at all: any setter once
\* start has been called, setTaskQueMaxThreshold with threshold <= 0,
\* setThreadSizeThreshold in a mode other than MODE_CACHED or with threshold
\* <= 0 or > THREAD_MAX_THRESHOLD.  The mode and the two thresholds change only
\* in a pool that is not running, and only to an accepted value, so they are
\* constant from the first statement of start until destruction.
C12_RefusedSettersChangeNothing ==
    [][/\ \A mode \in PoolMode :
              (SetMode(mode) /\ isPoolRunning_) => UNCHANGED vars
       /\ \A th \in QueThresholdArgs :
              (SetTaskQueMaxThreshold(th) /\ (isPoolRunning_ \/ th <= 0)) => UNCHANGED vars
       /\ \A th \in ThreadThresholdArgs :
              (SetThreadSizeThreshold(th)
                 /\ (isPoolRunning_ \/ poolMode_ # MODE_CACHED
                        \/ th <= 0 \/ th > THREAD_MAX_THRESHOLD)) => UNCHANGED vars
       /\ (opc # "config") => UNCHANGED Configuration
       /\ (taskQueMaxThreshold_' # taskQueMaxThreshold_)
              => (~isPoolRunning_ /\ taskQueMaxThreshold_' > 0)
       /\ (threadSizeThreshold_' # threadSizeThreshold_)
              => /\ ~isPoolRunning_ /\ poolMode_ = MODE_CACHED
                 /\ threadSizeThreshold_' > 0
                 /\ threadSizeThreshold_' <= THREAD_MAX_THRESHOLD
       /\ (poolMode_' # poolMode_) => ~isPoolRunning_
      ]_vars

\* C12 witness: a running pool, in which the owner can call the setters, still
\* has the mode and the thresholds that were set before start
C12_Witness ==
    /\ Started /\ isPoolRunning_
    /\ poolMode_ = MODE_CACHED /\ taskQueMaxThreshold_ = 1 /\ threadSizeThreshold_ = 1
    /\ ENABLED SetMode(MODE_FIXED)
    /\ ENABLED SetTaskQueMaxThreshold(0)
    /\ ENABLED SetThreadSizeThreshold(THREAD_MAX_THRESHOLD + 1)

\* a running cached pool with nothing queued and no worker executing a task
Quiet ==
    /\ Started /\ poolMode_ = MODE_CACHED
    /\ Len(taskQue_) = 0
    /\ \A w \in Workers : wpc[w] \notin {"exec", "postexec"}

\* C13: if from some moment on the cached pool is running with no task
\* submitted and none executing, curThreadSize_ in the end equals
\* initThreadSize_ and stays equal; and no idle-timeout exit, whatever other
\* workers are retiring, takes curThreadSize_ below initThreadSize_.
C13_IdleReclaimed ==
    /\ (<>[]Quiet) => <>[](curThreadSize_ = initThreadSize_)
    /\ [][\A w \in Workers : RetireStep(w)
             => (curThreadSize_ > initThreadSize_ /\ curThreadSize_' >= initThreadSize_')]_vars

\* C13 witness: a pool that had grown above its initial size is quiet again at
\* its initial size, the workers above it having retired
C13_Witness ==
    /\ Quiet
    /\ curThreadSize_ = initThreadSize_
    /\ generateId_ >= initThreadSize_ + 2
    /\ Cardinality({w \in Workers : wpc[w] = "exited"}) = 2

\* a step of a submitTask call of client c
SubmitStep(c) ==
    \/ SubmitEnter(c) \/ SubmitTimeout(c) \/ SubmitSpurious(c)
    \/ SubmitRelock(c) \/ SubmitAttach(c)

\* the worker threads launched and the map records added and removed by a step
Launched == {w \in Workers : wpc[w] = "unborn" /\ wpc'[w] # "unborn"}
RecordsAdded == {i \in Ids : threads_[i] # "thread" /\ threads_'[i] = "thread"}
RecordsRemoved == {i \in Ids : threads_[i] = "thread" /\ threads_'[i] # "thread"}

\* C14: a step of submitTask never removes a record from the worker map,
\* launches at most one thread, and changes curThreadSize_ or the map only in
\* the step that appends the task, in MODE_CACHED, with taskSize_ (the new task
\* counted) > idleThreadSize_ and curThreadSize_ < threadSizeThreshold_; it
\* then adds one record, launches one thread and adds one to curThreadSize_.
\* In MODE_FIXED and in a call that ends in the admission timeout nothing of
\* this changes.
C14_GrowthRule ==
    [][\A c \in Clients : SubmitStep(c) =>
          /\ RecordsRemoved = {}
          /\ Cardinality(Launched) <= 1
          /\ (curThreadSize_' # curThreadSize_ \/ threads_' # threads_ \/ Launched # {})
                => /\ appended' = Append(appended, ccall'[c])
                   /\ poolMode_ = MODE_CACHED
                   /\ taskSize_' > idleThreadSize_
                   /\ curThreadSize_ < threadSizeThreshold_
                   /\ curThreadSize_' = curThreadSize_ + 1
                   /\ Cardinality(RecordsAdded) = 1
                   /\ Cardinality(Launched) = 1
          /\ (poolMode_ = MODE_FIXED \/ appended' = appended)
                => (UNCHANGED <<curThreadSize_, threads_>> /\ Launched = {})
      ]_vars

\* C14 witness: a submitTask call to a started cached pool has just appended
\* its task and created a worker, taking the pool above its initial size
C14_Witness ==
    /\ Started /\ poolMode_ = MODE_CACHED
    /\ \E c \in Clients : cpc[c] = "attach"
    /\ curThreadSize_ = initThreadSize_ + 1
    /\ \E w \in Workers : wpc[w] = "start" /\ wid[w] = generateId_ - 1

\* C15 as stated: setVal is called at most once on every valid Result, every
\* queue entry is popped (and so executed) at most once, and no valid Result
\* whose entry has been executed is without a setVal while another Result has
\* had two.
C15_SetValAtMostOnce ==
    /\ \A h \in Handles : isValid_[h] = "valid" => published[h] <= 1
    /\ \A i, j \in 1..Len(popped) : popped[i] = popped[j] => i = j
    /\ ~ \E h1, h2 \in Handles :
            /\ isValid_[h1] = "valid" /\ h1 \in ran /\ published[h1] = 0
            /\ published[h2] >= 2

\* C16: the lock taken at the top of submitTask is held from the append to the
\* return, so a worker pops a task only after the Result of that call has been
\* attached: every popped call has a valid Result, and a worker inside
\* Task::exec never finds result_ null.
C16_PopAfterSetResult ==
    /\ \A h \in Range(popped) : isValid_[h] = "valid"
    /\ \A w \in Workers :
          wpc[w] = "exec"
              => (wtask[w] # NoEntry /\ result_[wtask[w].task] # Nullptr)
    /\ \A c \in Clients : cpc[c] = "attach" => taskQueMtx_ = Client(c)

\* C16 witness: a worker that had been woken by the broadcast of a submitTask
\* call is executing the task of that call, with the Result attached
C16_Witness ==
    \E w \in Workers :
        /\ wpc[w] = "exec" /\ wtask[w].call = 1
        /\ result_[wtask[w].task] = 1 /\ isValid_[1] = "valid"
        /\ Started /\ poolMode_ = MODE_FIXED


\* ---------------------------------------------------------------------------
\* C17
\* ---------------------------------------------------------------------------

\* a client suspended in Result::get on a handle that has not been published
ClientBlocked(c) == cpc[c] = "semwait" /\ resLimit_[ccall[c]] = 0

\* a worker suspended in notEmpty_.wait (the untimed wait of MODE_FIXED)
WorkerBlocked(w) == wpc[w] = "waiting" /\ poolMode_ = MODE_FIXED

\* every thread that is inside an operation of the pool is suspended, at least
\* one is, and tasks are queued in a running pool that has workers or may create
\* them (a MODE_FIXED pool started with no worker is left out)
Stall ==
    /\ Started /\ isPoolRunning_ /\ Len(taskQue_) > 0
    /\ initThreadSize_ > 0 \/ poolMode_ = MODE_CACHED
    /\ \E c \in Clients : ClientBlocked(c)
    /\ \A c \in Clients : cpc[c] \in {"idle", "holding"} \/ ClientBlocked(c)
    /\ \A w \in LiveWorkers : WorkerBlocked(w)

\* C17: no thread holds taskQueMtx_ while it runs a task body or is suspended on
\* a condition variable or on a Result's semaphore, and no reachable state of a
\* running pool has tasks queued while every thread inside the pool is suspended
C17_NoLockWhileBlocked ==
    /\ \A w \in Workers :
         wpc[w] \in {"exec", "postexec", "waiting", "notified", "timedout"}
            => taskQueMtx_ # Worker(w)
    /\ \A c \in Clients :
         cpc[c] \in {"waitFull", "fullNotified", "fullTimedout", "semwait"}
            => taskQueMtx_ # Client(c)
    /\ opc \in {"dtor_wait", "dtor_woken"} => taskQueMtx_ # Owner
    /\ ~Stall


\* ---------------------------------------------------------------------------
\* C18
\* ---------------------------------------------------------------------------

\* the ids that have a record in threads_
RecordIds == {i \in Ids : threads_[i] # "none"}

\* the ids the live worker threads were launched with
LiveIds == {wid[w] : w \in LiveWorkers}

\* C18: after start has returned and until a worker exits, the ids with a record
\* in threads_ are the ids of the live worker threads, one thread per record,
\* and n workers run, more only once submitTask has been called
C18_RecordsMatchWorkers ==
    (Started /\ \A w \in Workers : wpc[w] # "exited") =>
        /\ RecordIds = LiveIds
        /\ \A i \in RecordIds : threads_[i] = "thread"
        /\ \A v, w \in LiveWorkers : wid[v] = wid[w] => v = w
        /\ Cardinality(LiveWorkers) >= initThreadSize_
        /\ nCalls = 0 => Cardinality(LiveWorkers) = initThreadSize_


\* ---------------------------------------------------------------------------
\* C19
\* ---------------------------------------------------------------------------

\* Task::setResult called on a Task object with a Result made by the caller
\* (Result's constructor makes it valid)
DirectSetResult(t, h) ==
    /\ result_' = setResult(t, h)
    /\ isValid_' = [isValid_ EXCEPT ![h] = "valid"]
    /\ UNCHANGED <<poolVars, any_, resLimit_, ownerVars, clientVars, workerVars, crashed,
                   histVars>>

\* Task::exec called on a Task object, with or without a Result attached
DirectExec(t) ==
    /\ execCalls[t] < MaxExec
    /\ exec(t)
    /\ UNCHANGED <<poolVars, result_, isValid_, ownerVars, clientVars, workerVars, crashed,
                   appended, popped, ran, callTask, atShutdown>>

ExecNext ==
    \/ \E t \in Tasks, h \in Handles : DirectSetResult(t, h)
    \/ \E t \in Tasks : DirectExec(t)

\* class Task used by itself: setResult and exec on Task objects
ExecSpec == Init /\ [][ExecNext]_vars

\* C19: every call of Task::exec runs the body once; with a Result attached the
\* value of run() is published into it, with none attached the value is
\* discarded and no Result changes
C19_ExecRunsBody ==
    [][\A t \in Tasks :
         execCalls'[t] = execCalls[t] + 1 =>
            /\ bodyRuns'[t] = bodyRuns[t] + 1
            /\ result_[t] # Nullptr =>
                  /\ any_'[result_[t]] = run(t)
                  /\ published' = [published EXCEPT ![result_[t]] = published[result_[t]] + 1]
            /\ result_[t] = Nullptr => UNCHANGED <<any_, resLimit_, published>>]_vars


\* ---------------------------------------------------------------------------
\* C20
\* ---------------------------------------------------------------------------

\* a running pool with nothing queued and no worker between taking a task and
\* the ++idleThreadSize_ that follows its execution
Quiescent ==
    /\ Started
    /\ Len(taskQue_) = 0
    /\ \A w \in Workers : wpc[w] \notin {"exec", "postexec"}

\* C20: at quiescence idleThreadSize_ equals curThreadSize_, and after start(n)
\* with no submission at all both equal initThreadSize_
C20_IdleExactAtQuiescence ==
    /\ Quiescent => idleThreadSize_ = curThreadSize_
    /\ (Started /\ nCalls = 0) =>
          (curThreadSize_ = initThreadSize_ /\ idleThreadSize_ = initThreadSize_)

====
